---- MODULE Spec2Model ----
(***************************************************************************)
(* Model of common/crypto/crypto.go of Tabjy/groundhog: the lazy cipher     *)
(* builder initCipherStream, the two transforms Ciphertext and Plaintext    *)
(* with their background copy tasks over synchronous pipes, and CipherConn. *)
(***************************************************************************)
EXTENDS Integers, Sequences, FiniteSets, TLC

\* ------------------------------------------------------------------ bounds
MaxInitCalls == 2      \* initCipherStream calls per configuration (SpecInit)
MaxBytes == 2          \* bytes a source (peer or caller) emits per direction
MaxWriteLen == 2       \* longest buffer of one CipherConn.Write call
MaxReadLen == 1        \* longest buffer of one CipherConn.Read call
CopyBufLen == 1        \* io.Copy's buffer (32 KiB in Go), scaled down
FairMaxBytes == 1      \* bytes both sources emit together under FairSpec
RelayMaxBytes == 2     \* bytes both plaintext ends emit together under SpecRelay
SharedMaxBytes == 3    \* bytes all sources emit together under SpecShared

\* --------------------------------------------------------------- constants
BlockSize == 16        \* aes.BlockSize
ByteMod == 256

Min(a, b) == IF a < b THEN a ELSE b

Cfgs == {1, 2}
Sessions == {1, 2}
Dirs == {"encrypt", "decrypt"}

\* ------------------------------------------------------------- byte slices
\* A Go []byte: nil and empty-but-non-nil are different values.
NilBytes == [isNil |-> TRUE, bytes |-> <<>>]
Slice(b) == [isNil |-> FALSE, bytes |-> b]

Key16 == Slice([i \in 1..16 |-> i - 1])
Key16B == Slice([i \in 1..16 |-> 16 - i])
Key5 == Slice(<<1, 2, 3, 4, 5>>)
IV16 == Slice([i \in 1..16 |-> 0])
IV16B == Slice([i \in 1..16 |-> i])

\* ----------------------------------------------------------- cipher.Stream
NilStream == [isNil |-> TRUE, mode |-> "nil", key |-> <<>>, iv |-> <<>>, pos |-> 0]
NewStream(mode, key, iv) ==
    [isNil |-> FALSE, mode |-> mode, key |-> key, iv |-> iv, pos |-> 0]
\* a stream the caller built and supplied in EncryptStream / DecryptStream
PreStream == NewStream("OFB", Key16B.bytes, IV16B.bytes)

RECURSIVE BitXor(_, _)
BitXor(a, b) ==
    IF a = 0 THEN b
    ELSE IF b = 0 THEN a
    ELSE ((a + b) % 2) + 2 * BitXor(a \div 2, b \div 2)

RECURSIVE WeightedSum(_, _)
WeightedSum(s, n) == IF n = 0 THEN 0 ELSE s[n] * (2 * n + 1) + WeightedSum(s, n - 1)

\* Stand-in for the block cipher: byte i (from 0) of the keystream the mode
\* derives from (key, iv); CTR and OFB keystreams do not depend on the data.
KeyStreamByte(st, i) ==
    (WeightedSum(st.key, Len(st.key)) * 31 + WeightedSum(st.iv, Len(st.iv)) * 7
       + (IF st.mode = "CTR" THEN 17 ELSE 101) + i * 73 + i * i * 5) % ByteMod

\* cipher.Stream.XORKeyStream: the transformed bytes and the advanced stream
XORBytes(st, data) ==
    [i \in 1..Len(data) |-> BitXor(data[i], KeyStreamByte(st, st.pos + i - 1))]
AdvanceDropped(st, n) == st
Advance(st, n) == [st EXCEPT !.pos = st.pos + n]

\* aes.NewCipher accepts keys of 16, 24 or 32 bytes
AesKeyOK(key) == Len(key.bytes) \in {16, 24, 32}

\* ------------------------------------------------------------------- state
VARIABLES
    ed,         \* [Cfgs -> StreamEncryptDecrypter]
    initCalls,  \* [Cfgs -> number of initCipherStream calls made]
    lastErr,    \* [Cfgs -> what the last initCipherStream call returned]
    sess,       \* [Sessions -> transform kind and configuration of the session]
    conn,       \* [Sessions -> the real net.Conn handed to the transform]
    peerSent,   \* [Sessions -> bytes the peer has sent on the real conn]
    pipeIn,     \* [Sessions -> pending write on cipherRdIn/cipherWtOut]
    pipeOut,    \* [Sessions -> pending write on cipherRdOut/cipherWtIn]
    task,       \* [Sessions -> [Dirs -> state of the background task]]
    rd,         \* [Sessions -> the caller's CipherConn.Read call]
    wr,         \* [Sessions -> the caller's CipherConn.Write call]
    wrote,      \* [Sessions -> bytes the caller handed to CipherConn.Write]
    got,        \* [Sessions -> bytes CipherConn.Read returned to the caller]
    closes,     \* [Sessions -> Close calls made and the result of the last]
    linked      \* whether session 1's returned conn is relayed to session 2's conn

vars == <<ed, initCalls, lastErr, sess, conn, peerSent, pipeIn, pipeOut, task,
          rd, wr, wrote, got, closes, linked>>

sessVars == <<sess, conn, peerSent, pipeIn, pipeOut, task, rd, wr, wrote, got,
              closes, linked>>

\* ------------------------------------------------------ initCipherStream
ErrEncryptUnset == "at least one of EncryptStream OR EncryptKey and StreamEncrypter must be set"
ErrEncryptIV == "encrypt IV must be set"
ErrDecryptUnset == "at least one of DecryptStream OR DecryptKey and StreamDecrypter must be set"
ErrDecryptIV == "decrypt IV must be set"
ErrKeySize == "aes.KeySizeError"
Panic == "panic"

\* whether a direction's stream field already holds a stream
StreamAlwaysAbsent(st) == TRUE
StreamAbsent(st) == st.isNil

\* whether a key / IV byte slice counts as not set
UnsetIfEmpty(b) == b.isNil \/ Len(b.bytes) = 0
Unset(b) == b.isNil

\* the stream constructors of crypto/cipher (NewCTR, NewOFB) panic on an IV
\* whose length is not the block size
StreamCtor(mode, key, iv) ==
    IF Len(iv.bytes) # BlockSize
    THEN [err |-> Panic, st |-> NilStream]
    ELSE [err |-> "nil", st |-> NewStream(mode, key.bytes, iv.bytes)]

\* lines 33-47: the encrypt direction
initEncryptStream(e) ==
    IF ~StreamAbsent(e.EncryptStream) THEN [err |-> "nil", ed |-> e]
    ELSE IF e.StreamEncrypter = "nil" \/ Unset(e.EncryptKey)
    THEN [err |-> ErrEncryptUnset, ed |-> e]
    ELSE IF Unset(e.EncryptIV) THEN [err |-> ErrEncryptIV, ed |-> e]
    ELSE IF ~AesKeyOK(e.EncryptKey) THEN [err |-> ErrKeySize, ed |-> e]
    ELSE LET r == StreamCtor(e.StreamEncrypter, e.EncryptKey, e.EncryptIV)
         IN  IF r.err # "nil" THEN [err |-> r.err, ed |-> e]
             ELSE [err |-> "nil", ed |-> [e EXCEPT !.EncryptStream = r.st]]

\* lines 49-63: the decrypt direction
initDecryptStream(e) ==
    IF ~StreamAbsent(e.DecryptStream) THEN [err |-> "nil", ed |-> e]
    ELSE IF e.StreamDecrypter = "nil" \/ Unset(e.DecryptKey)
    THEN [err |-> ErrDecryptUnset, ed |-> e]
    ELSE IF Unset(e.DecryptIV) THEN [err |-> ErrDecryptIV, ed |-> e]
    ELSE IF ~AesKeyOK(e.DecryptKey) THEN [err |-> ErrKeySize, ed |-> e]
    ELSE LET r == StreamCtor(e.StreamDecrypter, e.DecryptKey, e.DecryptIV)
         IN  IF r.err # "nil" THEN [err |-> r.err, ed |-> e]
             ELSE [err |-> "nil", ed |-> [e EXCEPT !.DecryptStream = r.st]]

\* a builder that makes both streams anew on every call
initCipherStreamFresh(e) ==
    LET f == [e EXCEPT !.EncryptStream = NilStream, !.DecryptStream = NilStream]
        a == initEncryptStream(f)
    IN  IF a.err # "nil" THEN a ELSE initDecryptStream(a.ed)

\* initCipherStream: encrypt direction first, then decrypt; the first error
\* returns at once, keeping whatever was assigned before it
initCipherStream(e) ==
    LET a == initEncryptStream(e)
    IN  IF a.err # "nil" THEN a ELSE initDecryptStream(a.ed)

ConfigurationErrors == {ErrEncryptUnset, ErrEncryptIV, ErrDecryptUnset, ErrDecryptIV}
ErrKind(err) ==
    IF err = "nil" THEN "nil"
    ELSE IF err \in ConfigurationErrors THEN "ConfigurationError"
    ELSE IF err = ErrKeySize THEN "CipherConstructionError"
    ELSE "crash"

\* --------------------------------------------------- configurations tried
KeyChoices == {NilBytes, Slice(<<>>), Key5, Key16}
IVChoices == {NilBytes, Slice(<<>>), IV16}
CtorChoices == {"nil", "CTR", "OFB"}
StreamChoices == {NilStream, PreStream}

AllConfigs ==
    [EncryptKey : KeyChoices, DecryptKey : KeyChoices,
     StreamEncrypter : CtorChoices, StreamDecrypter : CtorChoices,
     EncryptStream : StreamChoices, DecryptStream : StreamChoices,
     EncryptIV : IVChoices, DecryptIV : IVChoices]

\* a complete configuration: both triples set, no stream yet
TripleConfig(mode) ==
    [EncryptKey |-> Key16, DecryptKey |-> Key16B,
     StreamEncrypter |-> mode, StreamDecrypter |-> mode,
     EncryptStream |-> NilStream, DecryptStream |-> NilStream,
     EncryptIV |-> IV16, DecryptIV |-> IV16B]

\* the configuration of the other end of the wire: directions swapped
Mirror(e) ==
    [EncryptKey |-> e.DecryptKey, DecryptKey |-> e.EncryptKey,
     StreamEncrypter |-> e.StreamDecrypter, StreamDecrypter |-> e.StreamEncrypter,
     EncryptStream |-> e.DecryptStream, DecryptStream |-> e.EncryptStream,
     EncryptIV |-> e.DecryptIV, DecryptIV |-> e.EncryptIV]

\* ---------------------------------------------------------- idle session
NoSess == [kind |-> "none", cfg |-> 0, pos0 |-> [d \in Dirs |-> 0]]
OpenConn == [closed |-> FALSE, rd |-> 0, eof |-> FALSE, out |-> <<>>]
IdleTask == [pc |-> "none", buf |-> <<>>, failed |-> "none"]
IdleCall == [pc |-> "idle", arg |-> <<>>, res |-> "none", late |-> FALSE]
\* Close calls so far (counted up to CountedCloses, more count as that many),
\* whether the caller made one, and what the last call returned
CountedCloses == 2
NoCloses == [n |-> 0, byCaller |-> FALSE, res |-> "none"]

InitSessions ==
    /\ sess = [s \in Sessions |-> NoSess]
    /\ conn = [s \in Sessions |-> OpenConn]
    /\ peerSent = [s \in Sessions |-> <<>>]
    /\ pipeIn = [s \in Sessions |-> <<>>]
    /\ pipeOut = [s \in Sessions |-> <<>>]
    /\ task = [s \in Sessions |-> [d \in Dirs |-> IdleTask]]
    /\ rd = [s \in Sessions |-> IdleCall]
    /\ wr = [s \in Sessions |-> IdleCall]
    /\ wrote = [s \in Sessions |-> <<>>]
    /\ got = [s \in Sessions |-> <<>>]
    /\ closes = [s \in Sessions |-> NoCloses]
    /\ linked = FALSE

\* ------------------------------------------ SpecInit: the builder alone
InitBuilder ==
    /\ \E e \in AllConfigs : ed = [c \in Cfgs |-> e]
    /\ initCalls = [c \in Cfgs |-> 0]
    /\ lastErr = [c \in Cfgs |-> "nil"]
    /\ InitSessions

\* one call of ed.initCipherStream()
CallInit(c) ==
    /\ initCalls[c] < MaxInitCalls
    /\ lastErr[c] # Panic
    /\ LET r == initCipherStream(ed[c])
       IN  /\ ed' = [ed EXCEPT ![c] = r.ed]
           /\ lastErr' = [lastErr EXCEPT ![c] = r.err]
    /\ initCalls' = [initCalls EXCEPT ![c] = @ + 1]
    /\ UNCHANGED sessVars

NextBuilder == CallInit(1)

SpecInit == InitBuilder /\ [][NextBuilder]_vars

\* ------------------------------------------------------------ sessions
Take(q, n) == SubSeq(q, 1, n)
Drop(q, n) == SubSeq(q, n + 1, Len(q))

\* the i-th byte (from 1) a source emits: the caller's writes carry
\* 1, 2, 3, ... and the peer's bytes 129, 130, ...
CallerByte(i) == i % ByteMod
PeerByte(i) == (128 + i) % ByteMod

StreamOf(e, d) == IF d = "encrypt" THEN e.EncryptStream ELSE e.DecryptStream
\* a task storing its stream in the field of the other direction
SetStreamOther(e, d, st) ==
    IF d = "encrypt" THEN [e EXCEPT !.DecryptStream = st]
    ELSE [e EXCEPT !.EncryptStream = st]
SetStream(e, d, st) ==
    IF d = "encrypt" THEN [e EXCEPT !.EncryptStream = st]
    ELSE [e EXCEPT !.DecryptStream = st]

\* Which task reads the pipe the caller writes (cipherRdIn, plainRdIn) and
\* writes the real conn, and which reads the real conn and writes the pipe
\* the caller reads (cipherWtIn, plainWtIn).
PipeTask(k) == IF k = "Ciphertext" THEN "decrypt" ELSE "encrypt"
ConnTask(k) == IF k = "Ciphertext" THEN "encrypt" ELSE "decrypt"

\* the decrypt tasks wrap their source in a cipher.StreamReader, the encrypt
\* tasks wrap their destination in a cipher.StreamWriter
ReadsThroughStream(d) == d = "decrypt"
WritesPlain(d) == FALSE
WritesThroughStream(d) == d = "encrypt"

\* a destination receives a chunk after what it already received
DeliverFront(dst, chunk) == chunk \o dst
Deliver(dst, chunk) == dst \o chunk

Started(s) == sess[s].kind # "none"
Crashed == \E c \in Cfgs : lastErr[c] = Panic

\* net.Conn.Close: the connection is closed from then on
CloseReopens(c) == [c EXCEPT !.closed = ~c.closed]
CloseConn(c) == [c EXCEPT !.closed = TRUE]
CloseResult(c) == IF c.closed THEN "errClosed" ELSE "nil"

\* net.Conn.Read / Write on a closed connection fail, also with an empty buffer
ProbeNeverFails(c) == FALSE
ProbeFails(c) == c.closed

\* a transform that goes on to the pipes and the tasks whatever
\* initCipherStream returned
StartSessionUnchecked(s, c, k) ==
    /\ ~Started(s)
    /\ ~Crashed
    /\ initCalls[c] < MaxInitCalls
    /\ LET r == initCipherStream(ed[c])
       IN  /\ ed' = [ed EXCEPT ![c] = r.ed]
           /\ lastErr' = [lastErr EXCEPT ![c] = r.err]
           /\ initCalls' = [initCalls EXCEPT ![c] = @ + 1]
           /\ sess' = [sess EXCEPT ![s] =
                 [kind |-> k, cfg |-> c,
                  pos0 |-> [d \in Dirs |-> StreamOf(r.ed, d).pos]]]
           /\ task' = [task EXCEPT ![s] =
                 [d \in Dirs |-> [IdleTask EXCEPT !.pc = "read"]]]
    /\ UNCHANGED <<conn, peerSent, pipeIn, pipeOut, rd, wr, wrote, got, closes, linked>>

\* the transform: streams first, then the pipes, the CipherConn and the tasks
StartSession(s, c, k) ==
    /\ ~Started(s)
    /\ ~Crashed
    /\ initCalls[c] < MaxInitCalls
    /\ LET r == initCipherStream(ed[c])
       IN  /\ ed' = [ed EXCEPT ![c] = r.ed]
           /\ lastErr' = [lastErr EXCEPT ![c] = r.err]
           /\ initCalls' = [initCalls EXCEPT ![c] = @ + 1]
           /\ IF r.err # "nil"
              THEN UNCHANGED <<sess, task>>
              ELSE /\ sess' = [sess EXCEPT ![s] =
                         [kind |-> k, cfg |-> c,
                          pos0 |-> [d \in Dirs |-> StreamOf(r.ed, d).pos]]]
                   /\ task' = [task EXCEPT ![s] =
                         [d \in Dirs |-> [IdleTask EXCEPT !.pc = "read"]]]
    /\ UNCHANGED <<conn, peerSent, pipeIn, pipeOut, rd, wr, wrote, got, closes, linked>>

Ciphertext(s, c) == StartSession(s, c, "Ciphertext")
Plaintext(s, c) == StartSession(s, c, "Plaintext")

\* ---- the task copying from the caller-written pipe to the real conn
\* (Ciphertext: decrypt task, lines 90-94; Plaintext: encrypt task, 127-131)

\* a pipe whose write end was closed: the read returns io.EOF
TaskReadPipeClosed(s) ==
    /\ Started(s) /\ ~Crashed
    /\ LET d == PipeTask(sess[s].kind)
       IN  /\ task[s][d].pc = "read"
           /\ task' = [task EXCEPT ![s][d] =
                 [@ EXCEPT !.pc = "close", !.failed = "EOF"]]
    /\ UNCHANGED <<ed, initCalls, lastErr, sess, conn, peerSent, pipeIn, pipeOut,
                   rd, wr, wrote, got, closes, linked>>

\* io.Copy: src.Read from the pipe; a pipe read takes what fits of the
\* pending write and blocks while no write is pending
TaskReadPipe(s) ==
    /\ Started(s) /\ ~Crashed
    /\ LET d == PipeTask(sess[s].kind)
           c == sess[s].cfg
           st == StreamOf(ed[c], d)
           n == Min(CopyBufLen, Len(pipeIn[s]))
           chunk == Take(pipeIn[s], n)
       IN  /\ task[s][d].pc = "read"
           /\ pipeIn[s] # <<>>
           /\ pipeIn' = [pipeIn EXCEPT ![s] = Drop(@, n)]
           /\ IF ReadsThroughStream(d)
              THEN /\ task' = [task EXCEPT ![s][d] =
                         [@ EXCEPT !.pc = "write", !.buf = XORBytes(st, chunk)]]
                   /\ ed' = [ed EXCEPT ![c] = SetStream(@, d, Advance(st, n))]
              ELSE /\ task' = [task EXCEPT ![s][d] =
                         [@ EXCEPT !.pc = "write", !.buf = chunk]]
                   /\ UNCHANGED ed
    /\ UNCHANGED <<initCalls, lastErr, sess, conn, peerSent, pipeOut, rd, wr,
                   wrote, got, closes, linked>>

\* io.Copy: dst.Write to the real conn; it fails on a closed conn and may
\* fail on an open one after n < len bytes (an I/O error), ending the copy
TaskWriteConn(s) ==
    /\ Started(s) /\ ~Crashed
    /\ LET d == PipeTask(sess[s].kind)
           c == sess[s].cfg
           st == StreamOf(ed[c], d)
           buf == task[s][d].buf
           data == IF WritesThroughStream(d) THEN XORBytes(st, buf) ELSE buf
       IN  /\ task[s][d].pc = "write"
           /\ IF WritesThroughStream(d)
              THEN ed' = [ed EXCEPT ![c] = SetStream(@, d, Advance(st, Len(buf)))]
              ELSE UNCHANGED ed
           /\ \E n \in 0..Len(data) :
                 /\ conn[s].closed => n = 0
                 /\ conn' = [conn EXCEPT ![s].out = Deliver(@, Take(data, n))]
                 /\ task' = [task EXCEPT ![s][d] =
                       IF n = Len(data) /\ ~conn[s].closed
                       THEN [@ EXCEPT !.pc = "read", !.buf = <<>>]
                       ELSE [@ EXCEPT !.pc = "close", !.buf = <<>>,
                                      !.failed = "write"]]
    /\ UNCHANGED <<initCalls, lastErr, sess, peerSent, pipeIn, pipeOut, rd, wr,
                   wrote, got, closes, linked>>

\* ---- the task copying from the real conn to the caller-read pipe
\* (Ciphertext: encrypt task, lines 97-101; Plaintext: decrypt task, 134-138)

\* bytes that have arrived on the real conn of session s: what its peer
\* sent, or, for the far end of a relayed pair, what the relay read from
\* the connection session 1 returned
Arrived(s) == IF linked /\ s = 2 THEN got[1] ELSE peerSent[s]

\* bytes the real conn has received and no Read has returned yet
Inbound(s) == Drop(Arrived(s), conn[s].rd)

\* io.Copy: src.Read from the real conn returns some of the bytes received
TaskReadConn(s) ==
    /\ Started(s) /\ ~Crashed
    /\ LET d == ConnTask(sess[s].kind)
           c == sess[s].cfg
           st == StreamOf(ed[c], d)
       IN  /\ task[s][d].pc = "read"
           /\ ~conn[s].closed
           /\ \E n \in 1..Min(CopyBufLen, Len(Inbound(s))) :
                 LET chunk == Take(Inbound(s), n)
                 IN  /\ conn' = [conn EXCEPT ![s].rd = @ + n]
                     /\ IF ReadsThroughStream(d)
                        THEN /\ task' = [task EXCEPT ![s][d] =
                                   [@ EXCEPT !.pc = "write", !.buf = XORBytes(st, chunk)]]
                             /\ ed' = [ed EXCEPT ![c] = SetStream(@, d, Advance(st, n))]
                        ELSE /\ task' = [task EXCEPT ![s][d] =
                                   [@ EXCEPT !.pc = "write", !.buf = chunk]]
                             /\ UNCHANGED ed
    /\ UNCHANGED <<initCalls, lastErr, sess, peerSent, pipeIn, pipeOut, rd, wr,
                   wrote, got, closes, linked>>

\* io.Copy: src.Read from the real conn ends the copy: the conn is closed,
\* the peer's stream has ended (io.EOF), or the read fails (an I/O error)
TaskReadConnEnd(s) ==
    /\ Started(s) /\ ~Crashed
    /\ LET d == ConnTask(sess[s].kind)
       IN  /\ task[s][d].pc = "read"
           /\ \E why \in {"closed", "EOF", "read"} :
                 /\ why = "closed" <=> conn[s].closed
                 /\ why = "EOF" => conn[s].eof /\ Inbound(s) = <<>>
                 /\ task' = [task EXCEPT ![s][d] =
                       [@ EXCEPT !.pc = "close", !.failed = why]]
    /\ UNCHANGED <<ed, initCalls, lastErr, sess, conn, peerSent, pipeIn, pipeOut,
                   rd, wr, wrote, got, closes, linked>>

\* io.Copy: dst.Write to the pipe hands the chunk over and blocks
TaskWritePipe(s) ==
    /\ Started(s) /\ ~Crashed
    /\ LET d == ConnTask(sess[s].kind)
           c == sess[s].cfg
           st == StreamOf(ed[c], d)
           buf == task[s][d].buf
       IN  /\ task[s][d].pc = "write"
           /\ pipeOut[s] = <<>>
           /\ IF WritesThroughStream(d)
              THEN /\ pipeOut' = [pipeOut EXCEPT ![s] = XORBytes(st, buf)]
                   /\ ed' = [ed EXCEPT ![c] = SetStream(@, d, Advance(st, Len(buf)))]
              ELSE /\ pipeOut' = [pipeOut EXCEPT ![s] = buf]
                   /\ UNCHANGED ed
           /\ task' = [task EXCEPT ![s][d] = [@ EXCEPT !.pc = "wait", !.buf = <<>>]]
    /\ UNCHANGED <<initCalls, lastErr, sess, conn, peerSent, pipeIn, rd, wr,
                   wrote, got, closes, linked>>

\* a pipe with a buffer: the write returns before any read has taken it
PipeWriteReturnsEarly(s) ==
    /\ Started(s) /\ ~Crashed
    /\ LET d == ConnTask(sess[s].kind)
       IN  /\ task[s][d].pc = "wait"
           /\ task' = [task EXCEPT ![s][d].pc = "read"]
    /\ UNCHANGED <<ed, initCalls, lastErr, sess, conn, peerSent, pipeIn, pipeOut,
                   rd, wr, wrote, got, closes, linked>>

\* the pipe write returns once reads have taken all of it
TaskWritePipeDone(s) ==
    /\ Started(s) /\ ~Crashed
    /\ LET d == ConnTask(sess[s].kind)
       IN  /\ task[s][d].pc = "wait"
           /\ pipeOut[s] = <<>>
           /\ task' = [task EXCEPT ![s][d].pc = "read"]
    /\ UNCHANGED <<ed, initCalls, lastErr, sess, conn, peerSent, pipeIn, pipeOut,
                   rd, wr, wrote, got, closes, linked>>

\* the goroutine returns without calling Close
TaskExitNoClose(s, d) ==
    /\ Started(s) /\ ~Crashed
    /\ task[s][d].pc = "close"
    /\ task' = [task EXCEPT ![s][d].pc = "done"]
    /\ UNCHANGED <<ed, initCalls, lastErr, sess, conn, peerSent, pipeIn, pipeOut,
                   rd, wr, wrote, got, closes, linked>>

\* after io.Copy returned: ciphertext.Close() / plaintext.Close()
TaskClose(s, d) ==
    /\ Started(s) /\ ~Crashed
    /\ task[s][d].pc = "close"
    /\ conn' = [conn EXCEPT ![s] = CloseConn(@)]
    /\ closes' = [closes EXCEPT ![s] =
          [@ EXCEPT !.n = Min(@ + 1, CountedCloses), !.res = CloseResult(conn[s])]]
    /\ task' = [task EXCEPT ![s][d].pc = "done"]
    /\ UNCHANGED <<ed, initCalls, lastErr, sess, peerSent, pipeIn, pipeOut, rd, wr,
                   wrote, got, linked>>

\* ---- the caller of the returned CipherConn

\* CipherConn.Read(b) is called with a buffer of n bytes
ReadStart(s, n) ==
    /\ Started(s) /\ ~Crashed
    /\ rd[s].pc = "idle"
    /\ rd' = [rd EXCEPT ![s] =
          [pc |-> "probe", arg |-> [i \in 1..n |-> 0], res |-> "none",
           late |-> conn[s].closed]]
    /\ UNCHANGED <<ed, initCalls, lastErr, sess, conn, peerSent, pipeIn, pipeOut,
                   task, wr, wrote, got, closes, linked>>

\* line 150: c.Conn.Read([]byte{}); on error return 0, err
ReadProbe(s) ==
    /\ Started(s) /\ ~Crashed
    /\ rd[s].pc = "probe"
    /\ rd' = [rd EXCEPT ![s] =
          IF ProbeFails(conn[s])
          THEN [@ EXCEPT !.pc = "idle", !.arg = <<>>, !.res = "err"]
          ELSE [@ EXCEPT !.pc = "pipe"]]
    /\ UNCHANGED <<ed, initCalls, lastErr, sess, conn, peerSent, pipeIn, pipeOut,
                   task, wr, wrote, got, closes, linked>>

\* line 153: c.ReadWriter.Read(b) on the pipe
ReadPipe(s) ==
    /\ Started(s) /\ ~Crashed
    /\ rd[s].pc = "pipe"
    /\ pipeOut[s] # <<>>
    /\ LET n == Min(Len(rd[s].arg), Len(pipeOut[s]))
       IN  /\ got' = [got EXCEPT ![s] = Deliver(@, Take(pipeOut[s], n))]
           /\ pipeOut' = [pipeOut EXCEPT ![s] = Drop(@, n)]
    /\ rd' = [rd EXCEPT ![s] = [@ EXCEPT !.pc = "idle", !.arg = <<>>, !.res = "ok"]]
    /\ UNCHANGED <<ed, initCalls, lastErr, sess, conn, peerSent, pipeIn, task, wr,
                   wrote, closes, linked>>

\* the bytes the caller of session s has to write: its own bytes, or, for
\* the near end of a relayed pair, what session 2 wrote to the wire
Outbound(s) ==
    IF linked /\ s = 1 THEN conn[2].out
    ELSE [i \in 1..MaxBytes |-> CallerByte(i)]

\* the bytes the next Write of session s carries
NextWriteData(s, n) == SubSeq(Outbound(s), Len(wrote[s]) + 1, Len(wrote[s]) + n)

\* CipherConn.Write(b) is called with n bytes
WriteStart(s, n) ==
    /\ Started(s) /\ ~Crashed
    /\ wr[s].pc = "idle"
    /\ Len(wrote[s]) + n <= Len(Outbound(s))
    /\ wr' = [wr EXCEPT ![s] =
          [pc |-> "probe", arg |-> NextWriteData(s, n), res |-> "none",
           late |-> conn[s].closed]]
    /\ UNCHANGED <<ed, initCalls, lastErr, sess, conn, peerSent, pipeIn, pipeOut,
                   task, rd, wrote, got, closes, linked>>

\* a Write that hands b to the pipe whatever the probe says
WriteThenProbe(s) ==
    /\ Started(s) /\ ~Crashed
    /\ wr[s].pc = "probe"
    /\ wr' = [wr EXCEPT ![s] =
          IF ProbeFails(conn[s])
          THEN [@ EXCEPT !.pc = "idle", !.arg = <<>>, !.res = "err"]
          ELSE [@ EXCEPT !.pc = "pipe"]]
    /\ pipeIn' = [pipeIn EXCEPT ![s] = wr[s].arg]
    /\ wrote' = [wrote EXCEPT ![s] = @ \o wr[s].arg]
    /\ UNCHANGED <<ed, initCalls, lastErr, sess, conn, peerSent, pipeOut, task, rd,
                   got, closes, linked>>

\* line 157: c.Conn.Write([]byte{}); on error return 0, err; else line 160:
\* c.ReadWriter.Write(b) hands b to the pipe and blocks
WriteProbe(s) ==
    /\ Started(s) /\ ~Crashed
    /\ wr[s].pc = "probe"
    /\ IF ProbeFails(conn[s])
       THEN /\ wr' = [wr EXCEPT ![s] =
                  [@ EXCEPT !.pc = "idle", !.arg = <<>>, !.res = "err"]]
            /\ UNCHANGED <<pipeIn, wrote>>
       ELSE /\ wr' = [wr EXCEPT ![s] = [@ EXCEPT !.pc = "pipe"]]
            /\ pipeIn' = [pipeIn EXCEPT ![s] = wr[s].arg]
            /\ wrote' = [wrote EXCEPT ![s] = @ \o wr[s].arg]
    /\ UNCHANGED <<ed, initCalls, lastErr, sess, conn, peerSent, pipeOut, task, rd,
                   got, closes, linked>>

\* the pipe write returns once the task's reads have taken all of it
WriteDone(s) ==
    /\ Started(s) /\ ~Crashed
    /\ wr[s].pc = "pipe"
    /\ pipeIn[s] = <<>>
    /\ wr' = [wr EXCEPT ![s] = [@ EXCEPT !.pc = "idle", !.arg = <<>>, !.res = "ok"]]
    /\ UNCHANGED <<ed, initCalls, lastErr, sess, conn, peerSent, pipeIn, pipeOut,
                   task, rd, wrote, got, closes, linked>>

\* a Close that closes the pipes as well: calls blocked in them return
CloseReleases(s) ==
    /\ Started(s) /\ ~Crashed
    /\ conn' = [conn EXCEPT ![s] = CloseConn(@)]
    /\ closes' = [closes EXCEPT ![s] =
          [n |-> Min(@.n + 1, CountedCloses), byCaller |-> TRUE,
           res |-> CloseResult(conn[s])]]
    /\ rd' = [rd EXCEPT ![s] =
          IF @.pc = "pipe" THEN [@ EXCEPT !.pc = "idle", !.arg = <<>>, !.res = "err"]
          ELSE @]
    /\ wr' = [wr EXCEPT ![s] =
          IF @.pc = "pipe" THEN [@ EXCEPT !.pc = "idle", !.arg = <<>>, !.res = "err"]
          ELSE @]
    /\ UNCHANGED <<ed, initCalls, lastErr, sess, peerSent, pipeIn, pipeOut, task,
                   wrote, got, linked>>

\* CipherConn.Close(), promoted from the embedded net.Conn (line 146)
Close(s) ==
    /\ Started(s) /\ ~Crashed
    /\ conn' = [conn EXCEPT ![s] = CloseConn(@)]
    /\ closes' = [closes EXCEPT ![s] =
          [n |-> Min(@.n + 1, CountedCloses), byCaller |-> TRUE,
           res |-> CloseResult(conn[s])]]
    /\ UNCHANGED <<ed, initCalls, lastErr, sess, peerSent, pipeIn, pipeOut, task,
                   rd, wr, wrote, got, linked>>

\* ---- the peer on the real conn

PeerSend(s) ==
    /\ Started(s) /\ ~Crashed
    /\ ~conn[s].closed /\ ~conn[s].eof
    /\ Len(peerSent[s]) < MaxBytes
    /\ peerSent' = [peerSent EXCEPT ![s] = Append(@, PeerByte(Len(@) + 1))]
    /\ UNCHANGED <<ed, initCalls, lastErr, sess, conn, pipeIn, pipeOut, task, rd,
                   wr, wrote, got, closes, linked>>

\* the peer ends its stream: reads of the real conn return io.EOF once drained
PeerClose(s) ==
    /\ Started(s) /\ ~Crashed
    /\ ~conn[s].closed /\ ~conn[s].eof
    /\ conn' = [conn EXCEPT ![s].eof = TRUE]
    /\ UNCHANGED <<ed, initCalls, lastErr, sess, peerSent, pipeIn, pipeOut, task,
                   rd, wr, wrote, got, closes, linked>>

\* ------------------------------------------------ Spec: one session
SessionConfigs ==
    { TripleConfig("CTR"),
      [TripleConfig("CTR") EXCEPT !.DecryptKey = Key5],
      [TripleConfig("CTR") EXCEPT !.EncryptKey = NilBytes] }

Init ==
    /\ \E e \in SessionConfigs : ed = [c \in Cfgs |-> IF c = 1 THEN e ELSE Mirror(e)]
    /\ initCalls = [c \in Cfgs |-> 0]
    /\ lastErr = [c \in Cfgs |-> "nil"]
    /\ InitSessions

TaskStep(s) ==
    \/ TaskReadPipe(s)
    \/ TaskWriteConn(s)
    \/ TaskReadConn(s)
    \/ TaskReadConnEnd(s)
    \/ TaskWritePipe(s)
    \/ TaskWritePipeDone(s)
    \/ \E d \in Dirs : TaskClose(s, d)

CallerStep(s) ==
    \/ \E n \in 1..MaxReadLen : ReadStart(s, n)
    \/ ReadProbe(s)
    \/ ReadPipe(s)
    \/ \E n \in 1..MaxWriteLen : WriteStart(s, n)
    \/ WriteProbe(s)
    \/ WriteDone(s)
    \/ Close(s)

PeerStep(s) == PeerSend(s) \/ PeerClose(s)

Next ==
    \/ Ciphertext(1, 1)
    \/ Plaintext(1, 1)
    \/ TaskStep(1)
    \/ CallerStep(1)
    \/ PeerStep(1)

Spec == Init /\ [][Next]_vars

\* ------------------------------------ FairSpec: one session, scheduled
\* The Go scheduler runs every goroutine that can run: each background task
\* and each call the caller has started takes its next step when the step
\* stays possible.  Starting calls, Close and the peer are under no duty.
PipeTaskRun(s) ==
    TaskReadPipe(s) \/ TaskWriteConn(s) \/ TaskClose(s, PipeTask(sess[s].kind))
ConnTaskRun(s) ==
    \/ TaskReadConn(s) \/ TaskReadConnEnd(s) \/ TaskWritePipe(s)
    \/ TaskWritePipeDone(s) \/ TaskClose(s, ConnTask(sess[s].kind))
ReadRun(s) == ReadProbe(s) \/ ReadPipe(s)
WriteRun(s) == WriteProbe(s) \/ WriteDone(s)

InitFair ==
    /\ ed = [c \in Cfgs |-> IF c = 1 THEN TripleConfig("CTR")
                                     ELSE Mirror(TripleConfig("CTR"))]
    /\ initCalls = [c \in Cfgs |-> 0]
    /\ lastErr = [c \in Cfgs |-> "nil"]
    /\ InitSessions

\* the sources stop emitting at FairMaxBytes bytes: only WriteStart and
\* PeerSend, steps under no duty, are held back by it
FairBudget ==
    Len(wrote[1]) + Len(peerSent[1])
       + (IF wr[1].pc = "probe" THEN Len(wr[1].arg) ELSE 0) <= FairMaxBytes

FairNext ==
    \/ Ciphertext(1, 1)
    \/ Plaintext(1, 1)
    \/ TaskStep(1)
    \/ ReadStart(1, MaxReadLen)
    \/ ReadProbe(1)
    \/ ReadPipe(1)
    \/ (\E n \in 1..MaxWriteLen : WriteStart(1, n)) /\ FairBudget'
    \/ WriteProbe(1)
    \/ WriteDone(1)
    \/ Close(1)
    \/ PeerSend(1) /\ FairBudget'
    \/ PeerClose(1)

FairSpec ==
    /\ InitFair /\ [][FairNext]_vars
    /\ WF_vars(PipeTaskRun(1)) /\ WF_vars(ConnTaskRun(1))
    /\ WF_vars(ReadRun(1)) /\ WF_vars(WriteRun(1))

\* ------------------------- SpecRelay: Ciphertext and Plaintext composed
\* Session 1 is Ciphertext over the near plaintext conn; a relay carries the
\* bytes read from the connection it returned to the wire, and the bytes of
\* the wire into it.  Session 2 is Plaintext over the wire, with the matching
\* configuration; its returned connection is the far plaintext end.  No
\* connection fails or is closed while the data is under way.
InitRelay ==
    /\ \E m \in {"CTR", "OFB"} :
          ed = [c \in Cfgs |-> IF c = 1 THEN TripleConfig(m)
                                        ELSE Mirror(TripleConfig(m))]
    /\ initCalls = [c \in Cfgs |-> 0]
    /\ lastErr = [c \in Cfgs |-> "nil"]
    /\ InitSessions!1 /\ InitSessions!2 /\ InitSessions!3 /\ InitSessions!4
    /\ InitSessions!5 /\ InitSessions!6 /\ InitSessions!7 /\ InitSessions!8
    /\ InitSessions!9 /\ InitSessions!10 /\ InitSessions!11
    /\ linked = TRUE

NoFault == \A s \in Sessions : \A d \in Dirs : task[s][d].pc \notin {"close", "done"}

\* the two plaintext ends stop emitting at RelayMaxBytes bytes
RelayBudget ==
    Len(peerSent[1]) + Len(wrote[2])
       + (IF wr[2].pc = "probe" THEN Len(wr[2].arg) ELSE 0) <= RelayMaxBytes

NextRelay ==
    \/ Ciphertext(1, 1)
    \/ Plaintext(2, 2)
    \/ \E s \in Sessions :
          \/ TaskReadPipe(s)
          \/ TaskWriteConn(s) /\ NoFault'
          \/ TaskReadConn(s)
          \/ TaskWritePipe(s)
          \/ TaskWritePipeDone(s)
          \/ \E n \in 1..MaxReadLen : ReadStart(s, n)
          \/ ReadProbe(s)
          \/ ReadPipe(s)
          \/ (\E n \in 1..MaxWriteLen : WriteStart(s, n)) /\ RelayBudget'
          \/ WriteProbe(s)
          \/ WriteDone(s)
    \/ PeerSend(1) /\ RelayBudget'

SpecRelay == InitRelay /\ [][NextRelay]_vars

\* ---------------- SpecShared: two sessions on one StreamEncryptDecrypter
\* The caller makes the same transform call a second time on configuration
\* 1 after the first succeeded, on another connection.  No connection fails
\* or is closed.
InitShared ==
    /\ ed = [c \in Cfgs |-> IF c = 1 THEN TripleConfig("CTR")
                                     ELSE Mirror(TripleConfig("CTR"))]
    /\ initCalls = [c \in Cfgs |-> 0]
    /\ lastErr = [c \in Cfgs |-> "nil"]
    /\ InitSessions

\* the sources of both sessions stop emitting at SharedMaxBytes bytes
SharedBudget ==
    Len(wrote[1]) + Len(wrote[2]) + Len(peerSent[1]) + Len(peerSent[2])
       + (IF wr[1].pc = "probe" THEN Len(wr[1].arg) ELSE 0)
       + (IF wr[2].pc = "probe" THEN Len(wr[2].arg) ELSE 0) <= SharedMaxBytes

NextShared ==
    \/ Ciphertext(1, 1)
    \/ Plaintext(1, 1)
    \/ Ciphertext(2, 1) /\ sess[1].kind = "Ciphertext"
    \/ Plaintext(2, 1) /\ sess[1].kind = "Plaintext"
    \/ \E s \in Sessions :
          \/ TaskReadPipe(s)
          \/ TaskWriteConn(s) /\ NoFault'
          \/ TaskReadConn(s)
          \/ TaskWritePipe(s)
          \/ TaskWritePipeDone(s)
          \/ ReadStart(s, MaxReadLen)
          \/ ReadProbe(s)
          \/ ReadPipe(s)
          \/ (\E n \in 1..MaxWriteLen : WriteStart(s, n)) /\ SharedBudget'
          \/ WriteProbe(s)
          \/ WriteDone(s)
          \/ PeerSend(s) /\ SharedBudget'

SpecShared == InitShared /\ [][NextShared]_vars

\* ------------------------------------------------ claims on a session
IsPrefix(a, b) == Len(a) <= Len(b) /\ a = Take(b, Len(a))

\* what stream d of session s makes of the bytes src, from the position the
\* stream had when the session started
Through(s, d, src) ==
    LET st == StreamOf(ed[sess[s].cfg], d)
    IN  [i \in 1..Len(src) |->
           BitXor(src[i], KeyStreamByte(st, sess[s].pos0[d] + i - 1))]

TasksDone(s) == \A d \in Dirs : task[s][d].pc = "done"
EndOfStream(s) == conn[s].eof /\ Inbound(s) = <<>>

\* C1: once the real connection is closed or has reached end-of-stream, both
\* background tasks of the session eventually terminate, whatever the caller
\* does or does not do afterwards.
C1_TasksTerminate ==
    (Started(1) /\ (conn[1].closed \/ EndOfStream(1))) ~> TasksDone(1)

\* C2: a Read or Write started on the returned connection after the real
\* connection was closed never enters the pipe, never returns success, and
\* eventually returns an error.
C2_LateCallsFail ==
    /\ [](\A s \in Sessions :
            /\ rd[s].late => rd[s].pc # "pipe" /\ (rd[s].pc = "idle" => rd[s].res = "err")
            /\ wr[s].late => wr[s].pc # "pipe" /\ (wr[s].pc = "idle" => wr[s].res = "err"))
    /\ (rd[1].pc = "probe" /\ rd[1].late) ~> (rd[1].pc = "idle" /\ rd[1].res = "err")
    /\ (wr[1].pc = "probe" /\ wr[1].late) ~> (wr[1].pc = "idle" /\ wr[1].res = "err")

\* a Write and a Read started after a task closed the connection on
\* end-of-stream have both returned the error
C2_Witness ==
    /\ conn[1].closed /\ ~closes[1].byCaller
    /\ rd[1].late /\ rd[1].pc = "idle" /\ rd[1].res = "err"
    /\ wr[1].late /\ wr[1].pc = "idle" /\ wr[1].res = "err"

\* C3: a background task that has terminated has closed the real connection:
\* no state has a finished task and an open connection.
C3_DoneImpliesClosed ==
    \A s \in Sessions : \A d \in Dirs : task[s][d].pc = "done" => conn[s].closed

\* the task writing the real conn ended on a failed write while the other
\* task is still inside its copy loop
C3_Witness ==
    /\ task[1][PipeTask(sess[1].kind)].pc = "done"
    /\ task[1][PipeTask(sess[1].kind)].failed = "write"
    /\ task[1][ConnTask(sess[1].kind)].pc \in {"read", "write", "wait"}
    /\ ~closes[1].byCaller

Drained ==
    /\ \A s \in Sessions :
          /\ Started(s)
          /\ pipeIn[s] = <<>> /\ pipeOut[s] = <<>>
          /\ Inbound(s) = <<>>
          /\ wr[s].pc = "idle"
          /\ \A d \in Dirs : task[s][d].pc = "read"
    /\ Len(wrote[1]) = Len(conn[2].out)

\* C5: Ciphertext on the near side composed with Plaintext on the far side
\* under matching configurations reproduces the bytes end to end: what the
\* far plaintext end reads is what the near plaintext end sent, and what the
\* near plaintext conn receives is what the far end wrote, in order,
\* unaltered and, once nothing is under way, complete, however the bytes
\* were split into Write calls and copy chunks.
C5_RoundTrip ==
    linked =>
        /\ IsPrefix(got[2], peerSent[1])
        /\ IsPrefix(conn[1].out, wrote[2])
        /\ Drained => got[2] = peerSent[1] /\ conn[1].out = wrote[2]

\* two bytes have crossed from the near plaintext end to the far one, as
\* ciphertext on the wire, and everything sent has arrived
C5_Witness ==
    /\ linked /\ Drained
    /\ Len(got[2]) >= 2 /\ got[2] = peerSent[1]
    /\ got[1] # peerSent[1]

\* the same in the other direction, written by the far end in one Write
C5_WitnessBack ==
    /\ linked /\ Drained
    /\ Len(conn[1].out) >= 2 /\ conn[1].out = wrote[2]
    /\ conn[2].out # wrote[2]

\* C6: in the Ciphertext transform with a freshly built decrypt stream, byte
\* i of all the bytes written to the returned connection reaches the real
\* plaintext connection as that byte xor keystream byte i, however the bytes
\* were split into Write calls and copy chunks, and the keystream position
\* is the number of bytes the decrypt task has taken.
C6_DecryptXorsEachByteOnce ==
    \A s \in Sessions :
        sess[s].kind = "Ciphertext" /\ sess[s].pos0["decrypt"] = 0 =>
            LET st == ed[sess[s].cfg].DecryptStream
            IN  /\ Len(conn[s].out) <= Len(wrote[s])
                /\ \A i \in 1..Len(conn[s].out) :
                      conn[s].out[i] = BitXor(wrote[s][i], KeyStreamByte(st, i - 1))
                /\ st.pos = Len(wrote[s]) - Len(pipeIn[s])

\* two bytes written to the returned connection have reached the plaintext
\* connection
C6_Witness ==
    /\ sess[1].kind = "Ciphertext" /\ sess[1].pos0["decrypt"] = 0
    /\ Len(wrote[1]) >= 2 /\ Len(conn[1].out) = Len(wrote[1])
    /\ conn[1].out # wrote[1]

\* C7: on each of the four data paths the bytes delivered to the destination
\* are the transform of a prefix of the bytes written to the source, in the
\* same order.
C7_OrderPreserved ==
    \A s \in Sessions : Started(s) =>
        /\ Len(conn[s].out) <= Len(wrote[s])
        /\ conn[s].out =
              Through(s, PipeTask(sess[s].kind), Take(wrote[s], Len(conn[s].out)))
        /\ Len(got[s]) <= Len(peerSent[s])
        /\ got[s] =
              Through(s, ConnTask(sess[s].kind), Take(peerSent[s], Len(got[s])))

\* both directions of a Plaintext session have delivered two bytes
C7_Witness ==
    /\ sess[1].kind = "Plaintext"
    /\ Len(conn[1].out) >= 2 /\ Len(got[1]) >= 2

\* the same for a Ciphertext session
C7_WitnessCiphertext ==
    /\ sess[1].kind = "Ciphertext"
    /\ Len(conn[1].out) >= 2 /\ Len(got[1]) >= 2

\* ------------------------------------------------- claims on the builder
CallMade(c) == initCalls'[c] # initCalls[c]

\* C8: a call of initCipherStream never replaces or rebuilds a stream that is
\* already present, whatever the key, IV and constructor of that direction
\* hold, and a call that follows a successful call changes nothing.
C8_PresentStreamUntouched ==
    [][\A c \in Cfgs : CallMade(c) =>
          /\ (~ed[c].EncryptStream.isNil =>
                 ed'[c].EncryptStream = ed[c].EncryptStream)
          /\ (~ed[c].DecryptStream.isNil =>
                 ed'[c].DecryptStream = ed[c].DecryptStream)
          /\ (initCalls[c] > 0 /\ lastErr[c] = "nil" =>
                 ed'[c] = ed[c] /\ lastErr'[c] = "nil")]_vars

\* a pre-supplied encrypt stream beside an unusable key and no IV survived
\* two successful calls, the second after the decrypt stream was built
C8_Witness ==
    /\ initCalls[1] = 2 /\ lastErr[1] = "nil"
    /\ ed[1].EncryptStream = PreStream
    /\ ed[1].EncryptKey = Key5 /\ ed[1].EncryptIV = NilBytes
    /\ ed[1].DecryptStream = NewStream("CTR", Key16.bytes, IV16.bytes)

\* C9: when initCipherStream fails because one direction lacks its key,
\* constructor or IV, the stream field of the other direction is the same
\* after the call as before it.
C9_FailedCallLeavesOtherDirection ==
    [][\A c \in Cfgs : CallMade(c) =>
          /\ (lastErr'[c] \in {ErrDecryptUnset, ErrDecryptIV} =>
                 ed'[c].EncryptStream = ed[c].EncryptStream)
          /\ (lastErr'[c] \in {ErrEncryptUnset, ErrEncryptIV} =>
                 ed'[c].DecryptStream = ed[c].DecryptStream)]_vars

\* what the claim C10 expects of a call on configuration e: the first
\* direction without a stream that lacks material (absent or empty) gives a
\* ConfigurationError, one whose material is there but whose key length is
\* invalid gives a CipherConstructionError
Lacks(ctor, key, iv) == ctor = "nil" \/ UnsetIfEmpty(key) \/ UnsetIfEmpty(iv)
EncLacks(e) ==
    e.EncryptStream.isNil /\ Lacks(e.StreamEncrypter, e.EncryptKey, e.EncryptIV)
EncBadKey(e) ==
    e.EncryptStream.isNil /\ ~EncLacks(e) /\ ~AesKeyOK(e.EncryptKey)
DecLacks(e) ==
    e.DecryptStream.isNil /\ Lacks(e.StreamDecrypter, e.DecryptKey, e.DecryptIV)
DecBadKey(e) ==
    e.DecryptStream.isNil /\ ~DecLacks(e) /\ ~AesKeyOK(e.DecryptKey)
ExpectedKind(e) ==
    IF EncLacks(e) THEN "ConfigurationError"
    ELSE IF EncBadKey(e) THEN "CipherConstructionError"
    ELSE IF DecLacks(e) THEN "ConfigurationError"
    ELSE IF DecBadKey(e) THEN "CipherConstructionError"
    ELSE "nil"

\* C10: for a direction with no ready stream, a missing key, constructor or
\* IV (absent or empty) makes initCipherStream return a ConfigurationError,
\* an invalid key length a CipherConstructionError, and the call never
\* crashes.
C10_ErrorKinds ==
    [][\A c \in Cfgs : CallMade(c) /\ ExpectedKind(ed[c]) # "nil" =>
          ErrKind(lastErr'[c]) = ExpectedKind(ed[c])]_vars

\* the same statement for material that is absent (nil): this part the code
\* satisfies
C10_NilOnly ==
    [][\A c \in Cfgs :
          /\ CallMade(c)
          /\ ExpectedKind(ed[c]) # "nil"
          /\ \A b \in {ed[c].EncryptKey, ed[c].DecryptKey,
                       ed[c].EncryptIV, ed[c].DecryptIV} : b # Slice(<<>>)
          => ErrKind(lastErr'[c]) = ExpectedKind(ed[c])]_vars

\* ------------------------------------- claims on the transforms' contract

\* C11: a Ciphertext or Plaintext call in which initCipherStream fails
\* returns that error and changes nothing of the session: no pipe, no task,
\* no Read, Write or Close on the connection passed in; and in every state a
\* task exists only in a started session whose two directions have a stream.
C11_FailedTransformDoesNothing ==
    /\ [](\A s \in Sessions : \A d \in Dirs :
            task[s][d].pc # "none" =>
                /\ Started(s)
                /\ ~ed[sess[s].cfg].EncryptStream.isNil
                /\ ~ed[sess[s].cfg].DecryptStream.isNil)
    /\ [][\A c \in Cfgs : CallMade(c) =>
            /\ lastErr'[c] = initCipherStream(ed[c]).err
            /\ (lastErr'[c] # "nil" => UNCHANGED sessVars)]_vars

\* a transform has failed on a 5-byte decrypt key: no session, no task, the
\* connection untouched
C11_Witness ==
    /\ initCalls[1] >= 1 /\ lastErr[1] = ErrKeySize
    /\ ~Started(1) /\ \A d \in Dirs : task[1][d].pc = "none"
    /\ conn[1] = OpenConn /\ closes[1] = NoCloses

\* the same on a configuration without an encrypt key
C11_WitnessMissing ==
    /\ initCalls[1] >= 1 /\ lastErr[1] = ErrEncryptUnset
    /\ ~Started(1) /\ \A d \in Dirs : task[1][d].pc = "none"
    /\ conn[1] = OpenConn /\ closes[1] = NoCloses

\* C12: CipherConn.Read and CipherConn.Write reach the pipe only through the
\* zero-length probe of the real connection; a call whose probe fails
\* returns the error with no byte transferred and leaves the pipe as it
\* was: a failed Read takes nothing from the pipe it reads, a failed Write
\* offers nothing to the pipe it writes.
C12_FailedProbeLeavesPipe ==
    [][\A s \in Sessions :
          /\ rd'[s].pc = "pipe" => rd[s].pc \in {"probe", "pipe"}
          /\ wr'[s].pc = "pipe" => wr[s].pc \in {"probe", "pipe"}
          /\ (rd[s].pc = "probe" /\ rd'[s] # rd[s]) =>
                IF ProbeFails(conn[s])
                THEN /\ rd'[s].pc = "idle" /\ rd'[s].res = "err"
                     /\ got'[s] = got[s] /\ pipeOut'[s] = pipeOut[s]
                ELSE rd'[s].pc = "pipe" /\ pipeOut'[s] = pipeOut[s]
          /\ (wr[s].pc = "probe" /\ wr'[s] # wr[s]) =>
                IF ProbeFails(conn[s])
                THEN /\ wr'[s].pc = "idle" /\ wr'[s].res = "err"
                     /\ wrote'[s] = wrote[s] /\ pipeIn'[s] = pipeIn[s]
                ELSE wr'[s].pc = "pipe" /\ pipeIn'[s] = wr[s].arg]_vars

\* a Read and a Write, both started on an open connection, have failed at
\* the probe after the close; the chunk waiting in the pipe the Read would
\* have read is still there and nothing was written
C12_Witness ==
    /\ rd[1].pc = "idle" /\ rd[1].res = "err" /\ ~rd[1].late
    /\ wr[1].pc = "idle" /\ wr[1].res = "err" /\ ~wr[1].late
    /\ pipeOut[1] # <<>> /\ got[1] = <<>>
    /\ wrote[1] = <<>> /\ pipeIn[1] = <<>>

\* C13: backpressure.  In every state of a session, the direction from the
\* real connection holds at most one copy chunk between source and
\* destination, either in the task's buffer or pending in the pipe, and
\* everything else the task has read has been returned by Read; while the
\* chunk is pending the task waits and reads no further.  In the other
\* direction a Write stays inside the pipe while bytes of it are untaken,
\* and the task holds at most one chunk of it not yet written out.
C13_Backpressure ==
    \A s \in Sessions : Started(s) =>
        LET ct == task[s][ConnTask(sess[s].kind)]
            pt == task[s][PipeTask(sess[s].kind)]
        IN  /\ Len(ct.buf) + Len(pipeOut[s]) <= CopyBufLen
            /\ ~(ct.buf # <<>> /\ pipeOut[s] # <<>>)
            /\ ct.buf # <<>> => ct.pc = "write"
            /\ pipeOut[s] # <<>> => ct.pc = "wait"
            /\ conn[s].rd = Len(got[s]) + Len(pipeOut[s]) + Len(ct.buf)
            /\ pipeIn[s] # <<>> => wr[s].pc = "pipe"
            /\ Len(pt.buf) <= CopyBufLen
            /\ pt.buf # <<>> => pt.pc = "write"
            /\ pt.pc \in {"read", "write"} =>
                  Len(wrote[s]) = Len(pipeIn[s]) + Len(pt.buf) + Len(conn[s].out)

\* a slow consumer on both sides: a full chunk is pending in the pipe with
\* no Read under way while more bytes wait on the real connection, and the
\* other task holds one chunk of a Write whose rest is still in the pipe
C13_Witness ==
    /\ Started(1)
    /\ Len(pipeOut[1]) = CopyBufLen /\ rd[1].pc = "idle"
    /\ task[1][ConnTask(sess[1].kind)].pc = "wait"
    /\ Inbound(1) # <<>>
    /\ task[1][PipeTask(sess[1].kind)].pc = "write"
    /\ pipeIn[1] # <<>> /\ wr[1].pc = "pipe"

\* C14: a successful transform call starts the two tasks of its session, one
\* per direction, and within the session a step that changes EncryptStream
\* is a step of the encrypt task and a step that changes DecryptStream is a
\* step of the decrypt task: the other task and the caller's Read, Write
\* and Close take no part in it.
C14_StreamOwnedByItsTask ==
    /\ [](\A s \in Sessions : Started(s) => \A d \in Dirs : task[s][d].pc # "none")
    /\ [][\A s \in Sessions :
            /\ (~Started(s) /\ Started(s)') =>
                  \A d \in Dirs : task[s][d].pc = "none" /\ task'[s][d].pc = "read"
            /\ Started(s) => \A d \in Dirs :
                  StreamOf(ed'[sess[s].cfg], d) # StreamOf(ed[sess[s].cfg], d) =>
                      /\ task'[s][d] # task[s][d]
                      /\ \A o \in Dirs \ {d} :
                            /\ task'[s][o] = task[s][o]
                            /\ StreamOf(ed'[sess[s].cfg], o) = StreamOf(ed[sess[s].cfg], o)
                      /\ rd' = rd /\ wr' = wr /\ closes' = closes]_vars

\* both tasks of the session have advanced their stream
C14_Witness ==
    /\ Started(1)
    /\ \A d \in Dirs : StreamOf(ed[sess[1].cfg], d).pos >= sess[1].pos0[d] + 2

\* a Read is inside the pipe, nothing is pending in it, and the task that
\* writes this pipe has left its copy loop
StuckRead(s) ==
    /\ Started(s)
    /\ rd[s].pc = "pipe" /\ pipeOut[s] = <<>>
    /\ task[s][ConnTask(sess[s].kind)].pc \in {"close", "done"}

\* a Write is inside the pipe with bytes untaken, and the task that reads
\* this pipe has left its copy loop
StuckWrite(s) ==
    /\ Started(s)
    /\ wr[s].pc = "pipe" /\ pipeIn[s] # <<>>
    /\ task[s][PipeTask(sess[s].kind)].pc \in {"close", "done"}

\* C15: a Read or Write that has passed its probe leaves the pipe only
\* through the pipe exchange with the partner task (a Read by taking bytes
\* the task wrote, a Write once the task has taken all of its bytes),
\* never through the real connection being closed; and once the partner
\* task has left its loop the call stays blocked in every later state.
C15_BlockedCallNotReleased ==
    [][\A s \in Sessions :
          /\ (rd[s].pc = "pipe" /\ rd'[s].pc # "pipe") =>
                pipeOut[s] # <<>> /\ got'[s] # got[s] /\ rd'[s].res = "ok"
          /\ (wr[s].pc = "pipe" /\ wr'[s].pc # "pipe") =>
                pipeIn[s] = <<>> /\ wr'[s].res = "ok"
          /\ StuckRead(s) => StuckRead(s)'
          /\ StuckWrite(s) => StuckWrite(s)']_vars

\* the caller closed the connection while its Read was inside the pipe: the
\* task that feeds the pipe has terminated, the Read is still blocked
C15_Witness ==
    /\ conn[1].closed /\ closes[1].byCaller
    /\ StuckRead(1) /\ ~rd[1].late
    /\ task[1][ConnTask(sess[1].kind)].pc = "done"

\* a Write left blocked with part of its bytes untaken after the write of
\* the first chunk to the real connection failed
C15_WitnessWrite ==
    /\ conn[1].closed
    /\ StuckWrite(1) /\ ~wr[1].late
    /\ task[1][PipeTask(sess[1].kind)].pc = "done"

\* C16: the task whose source is a pipe (decrypt task of Ciphertext, encrypt
\* task of Plaintext) never sees its input end or fail: in every state where
\* it has left its copy loop or terminated, one of its writes to the real
\* connection has failed.
C16_PipeTaskEndsOnWriteOnly ==
    \A s \in Sessions : Started(s) =>
        LET pt == task[s][PipeTask(sess[s].kind)]
        IN  /\ pt.failed \in {"none", "write"}
            /\ pt.pc \in {"close", "done"} <=> pt.failed = "write"

\* the peer ended its stream and the task reading the real connection
\* closed it on io.EOF; the pipe-reading task terminated only when a later
\* Write of the caller gave it a chunk whose write to the closed connection
\* failed
C16_Witness ==
    /\ Started(1) /\ TasksDone(1)
    /\ conn[1].eof /\ ~closes[1].byCaller
    /\ task[1][ConnTask(sess[1].kind)].failed = "EOF"
    /\ task[1][PipeTask(sess[1].kind)].failed = "write"
    /\ conn[1].out = <<>> /\ wrote[1] # <<>>

\* the bytes by which the task of direction d of session s has advanced its
\* stream: a StreamReader advances on reading its source, a StreamWriter on
\* writing its destination
Used(s, d) ==
    IF ~Started(s) THEN 0
    ELSE IF d = PipeTask(sess[s].kind)
    THEN IF ReadsThroughStream(d) THEN Len(wrote[s]) - Len(pipeIn[s])
         ELSE Len(conn[s].out)
    ELSE IF ReadsThroughStream(d) THEN conn[s].rd
         ELSE Len(got[s]) + Len(pipeOut[s])

\* C17: a second Ciphertext or Plaintext call on a StreamEncryptDecrypter
\* whose first call succeeded leaves both streams as they are and starts a
\* session on them at the positions they have reached; from then on each
\* stream's position is the sum of what the two sessions' tasks of that
\* direction have consumed.
C17_SecondCallSharesStreams ==
    /\ [](\A d \in Dirs :
            (Started(1) \/ Started(2)) =>
                /\ \A s \in Sessions : Started(s) => sess[s].cfg = 1
                /\ StreamOf(ed[1], d).pos = Used(1, d) + Used(2, d))
    /\ [][\A s \in Sessions :
            (~Started(s) /\ Started(s)' /\ \E o \in Sessions \ {s} : Started(o)) =>
                /\ ed' = ed
                /\ \A d \in Dirs :
                      /\ task'[s][d].pc = "read"
                      /\ sess'[s].pos0[d] = StreamOf(ed[1], d).pos
                      /\ sess'[s].pos0[d] = Used(IF s = 1 THEN 2 ELSE 1, d)]_vars

\* two Ciphertext sessions alive on one decrypt stream: session 1 took
\* keystream byte 0, session 2 started at position 1 and took byte 1, then
\* session 1 took byte 2
C17_Witness ==
    /\ sess[1].kind = "Ciphertext" /\ sess[2].kind = "Ciphertext"
    /\ sess[2].pos0["decrypt"] = 1
    /\ Len(conn[1].out) = 2 /\ Len(conn[2].out) = 1
    /\ LET st == ed[1].DecryptStream
       IN  /\ conn[1].out[1] = BitXor(wrote[1][1], KeyStreamByte(st, 0))
           /\ conn[2].out[1] = BitXor(wrote[2][1], KeyStreamByte(st, 1))
           /\ conn[1].out[2] = BitXor(wrote[1][2], KeyStreamByte(st, 2))
           /\ KeyStreamByte(st, 1) # KeyStreamByte(st, 2)
    /\ ~IsPrefix(conn[1].out, Through(1, "decrypt", wrote[1]))

====
